---- MODULE Spec2Model ----
(***************************************************************************)
(* The /prever inference pipeline of backSophIA.                           *)
(*                                                                         *)
(* Two copies of the handler live in the repository: src/src/app.py and   *)
(* the later copy kept as src/tests/test_app.py.  The variable `version`   *)
(* says which copy serves; everything the two copies share is modelled     *)
(* once, and what differs (calibration clamp, risk threshold, response     *)
(* fields) is modelled per copy.                                           *)
(*                                                                         *)
(* Numbers.  JSON numbers and data-frame cells are counted in halves       *)
(* (n = 3 is 1.5), so that integers (even n) and fractions (odd n) both    *)
(* occur.  Probabilities are exact rationals: a raw percentage is counted  *)
(* in hundredths of a percent, a calibrated percentage in ten-thousandths  *)
(* of a percent (Unit = 1%).  Floating-point rounding error of the Python  *)
(* arithmetic is not modelled.                                             *)
(***************************************************************************)
EXTENDS Integers, Sequences, FiniteSets, TLC

VARIABLES
    version,                     \* which copy of the handler serves
    modelo,                      \* data_pkl['model']
    colunas_esperadas,           \* data_pkl['attributes']
    dtypes_esperados,            \* data_pkl['dtypes']
    value_col,                   \* data_pkl['value_col']
    label_encoders_armazenados,  \* data_pkl.get('label_encoders', {})
    scalers_armazenados,         \* data_pkl.get('scalers', {})
    reqs,                        \* the requests being handled, one per worker
    probability,                 \* argument of a direct calibrate_probability call
    calibrated                   \* its result

bundle == <<modelo, colunas_esperadas, dtypes_esperados, value_col,
            label_encoders_armazenados, scalers_armazenados>>

vars == <<version, modelo, colunas_esperadas, dtypes_esperados, value_col,
          label_encoders_armazenados, scalers_armazenados, reqs,
          probability, calibrated>>

----------------------------------------------------------------------------
(* Bounds of the model. *)

MaxNum == 3          \* JSON numbers 0, 0.5, .. MaxNum/2
NumWorkers == 2      \* requests handled concurrently in SpecConc
MaxRaw == 30000      \* direct calibration inputs reach MaxRaw/100 percent
MinRaw == 1000       \* ... and go down to -MinRaw/100 percent

----------------------------------------------------------------------------
(* Values: JSON scalars of a request and cells of the data frame. *)

Num(n)  == [t |-> "num",  n |-> n, s |-> ""]
Str(s)  == [t |-> "str",  n |-> 0, s |-> s]
Bool(b) == [t |-> "bool", n |-> IF b THEN 1 ELSE 0, s |-> ""]
None    == [t |-> "None", n |-> 0, s |-> ""]
NaN     == [t |-> "nan",  n |-> 0, s |-> ""]   \* numpy.nan
NA      == [t |-> "NA",   n |-> 0, s |-> ""]   \* pandas.NA

Strings == {"1", "1.5", "abc", "True", "yes"}
JsonValues == {Num(n) : n \in 0..MaxNum} \cup {Str(s) : s \in Strings}
              \cup {Bool(TRUE), Bool(FALSE), None}

IsMissing(v) == v.t \in {"nan", "NA", "None"}

\* float(s) of the strings of the model, in halves; the others do not parse.
ParsedNumber == [s \in {"1", "1.5"} |-> IF s = "1" THEN 2 ELSE 3]

\* str.lower(), on the strings that hold an upper-case letter
lower(s) ==
    CASE s = "True"  -> "true"
      [] s = "False" -> "false"
      [] s = "None"  -> "none"
      [] s = "<NA>"  -> "<na>"
      [] OTHER       -> s

\* str(x) of a value
str(v) ==
    CASE v.t = "str"  -> v.s
      [] v.t = "bool" -> IF v.n = 1 THEN "True" ELSE "False"
      [] v.t = "num"  -> IF v.n % 2 = 0 THEN ToString(v.n \div 2)
                         ELSE ToString(v.n \div 2) \o ".5"
      [] v.t = "None" -> "None"
      [] v.t = "nan"  -> "nan"
      [] OTHER        -> "<NA>"

\* Python's ==, which `in` uses on a list: True == 1 and False == 0.
PyEq(a, b) ==
    CASE a.t = "num" /\ b.t = "bool" -> a.n = 2 * b.n
      [] a.t = "bool" /\ b.t = "num" -> b.n = 2 * a.n
      [] a.t = "nan" \/ b.t = "nan"  -> FALSE
      [] OTHER -> a = b

PyIn(v, list) == \E i \in 1..Len(list) : PyEq(v, list[i])

\* pd.to_numeric(scalar, errors='coerce'): a number or a bool is returned as
\* it is, a string is parsed, anything else gives NaN.
to_numeric(v) ==
    CASE v.t \in {"num", "bool"} -> v
      [] v.t = "str" /\ v.s \in DOMAIN ParsedNumber -> Num(ParsedNumber[v.s])
      [] OTHER -> NaN

\* pd.isna(scalar)
isna(v) == IsMissing(v)

EmptyMap == [c \in {} |-> 0]

----------------------------------------------------------------------------
(* The bundle: what data.pkl may hold for one field. *)

\* A value_col entry: a list of allowed values, or a dict that may name a dtype.
AllowedList(l) == [k |-> "list", dtype |-> "None", allowed |-> l]
DtypeDict(d)   == [k |-> "dict", dtype |-> d, allowed |-> <<>>]

\* A fitted LabelEncoder (classes_ is sorted) and a fitted StandardScaler.
SimNao == [classes |-> <<"no", "yes">>]
Scaler(m, s) == [mean |-> m, scale |-> s]

----------------------------------------------------------------------------
(* validar_valores *)

\* The message put in erros[col]; "" when the value is accepted.
ErroDe(valor_recebido, valores_esperados) ==
    LET dtype_esperado == IF valores_esperados.k = "dict"
                          THEN valores_esperados.dtype ELSE "None"
    IN  IF dtype_esperado \in {"float64", "int64"}
        THEN IF isna(to_numeric(valor_recebido)) THEN "Esperado numerico" ELSE ""
        ELSE IF valores_esperados.k = "list"
        THEN IF ~PyIn(valor_recebido, valores_esperados.allowed)
             THEN "Valores esperados" ELSE ""
        ELSE IF dtype_esperado = "bool"
        THEN IF lower(str(valor_recebido)) \notin {"true", "false"}
             THEN "Esperado booleano" ELSE ""
        ELSE ""

\* A validation that stops at the first offending column.
validar_valores_primeiro(data, vcol) ==
    LET bad == {col \in DOMAIN vcol \cap DOMAIN data :
                    ErroDe(data[col], vcol[col]) # ""}
        first == IF bad = {} THEN {} ELSE {CHOOSE col \in bad : TRUE}
    IN  [col \in first |-> [msg      |-> ErroDe(data[col], vcol[col]),
                            received |-> data[col],
                            allowed  |-> vcol[col].allowed]]

\* The erros dict: one entry per offending column, with the received value
\* and, for a list, the allowed values.  The empty map stands for None.
validar_valores(data, vcol) ==
    LET bad == {col \in DOMAIN vcol \cap DOMAIN data :
                    ErroDe(data[col], vcol[col]) # ""}
    IN  [col \in bad |-> [msg      |-> ErroDe(data[col], vcol[col]),
                          received |-> data[col],
                          allowed  |-> vcol[col].allowed]]

----------------------------------------------------------------------------
(* The data frame: one row, a cell [dtype, v] per column. *)

Cell(d, v) == [dtype |-> d, v |-> v]
Raised == Cell("raised", None)      \* an exception left the operation

\* The dtype pandas infers for a one-row column holding v.
InferDtype(v) ==
    CASE v.t = "num"  -> IF v.n % 2 = 0 THEN "int64" ELSE "float64"
      [] v.t = "bool" -> "bool"
      [] OTHER        -> "object"

\* pd.DataFrame([data])[colunas_esperadas]
DataFrame(data, colunas) ==
    [col \in {colunas[i] : i \in 1..Len(colunas)} |->
        Cell(InferDtype(data[col]), data[col])]

\* pd.to_numeric(df[col], errors='coerce'): a numeric column is returned as
\* it is, an object column is parsed, what does not parse becomes NaN.
to_numeric_col(c) ==
    IF c.dtype # "object" THEN c
    ELSE LET n == to_numeric(c.v)
         IN  IF n.t = "num" THEN Cell(InferDtype(n), n) ELSE Cell("float64", NaN)

\* .astype('Int64'): NaN becomes <NA>, a fraction cannot be cast.
astype_Int64(c) ==
    CASE c.v.t = "nan"  -> Cell("Int64", NA)
      [] c.v.t = "bool" -> Cell("Int64", Num(2 * c.v.n))
      [] c.v.t = "num" /\ c.v.n % 2 = 0 -> Cell("Int64", c.v)
      [] OTHER -> Raised

ConverterCelula(c, dtype_str) ==
    CASE dtype_str = "float64" -> to_numeric_col(c)
      [] dtype_str = "int64"   -> astype_Int64(to_numeric_col(c))
      [] dtype_str = "bool"    -> Cell("bool", Bool(lower(str(c.v)) = "true"))
      [] OTHER -> c

converter_para_tipo_correto(df, dtypes) ==
    [col \in DOMAIN df |->
        IF col \in DOMAIN dtypes THEN ConverterCelula(df[col], dtypes[col])
        ELSE df[col]]

HasRaised(df) == \E col \in DOMAIN df : df[col] = Raised

\* Position of s in a sequence, 0 when absent.
IndexOf(seq, s) ==
    IF \E i \in 1..Len(seq) : seq[i] = s
    THEN CHOOSE i \in 1..Len(seq) : seq[i] = s ELSE 0

\* An encoder that gives an unseen label the code -1 instead of raising.
transform_label_desconhecido(encoder, c) ==
    IF c.v.t = "str" /\ IndexOf(encoder.classes, c.v.s) > 0
    THEN Cell("int64", Num(2 * (IndexOf(encoder.classes, c.v.s) - 1)))
    ELSE Cell("int64", Num(-2))

\* encoder.transform(df[col]): the code of a class seen in fitting; an
\* unseen label (None included) raises.
transform_label(encoder, c) ==
    IF c.v.t = "str" /\ IndexOf(encoder.classes, c.v.s) > 0
    THEN Cell("int64", Num(2 * (IndexOf(encoder.classes, c.v.s) - 1)))
    ELSE Raised

AplicarLabelEncoding(df, encoders) ==
    [col \in DOMAIN df |->
        IF col \in DOMAIN encoders /\ df[col].dtype = "object"
        THEN transform_label(encoders[col], df[col]) ELSE df[col]]

\* scaler.transform(df[[col]]): (x - mean) / scale; a missing value stays
\* missing.
transform_scale(scaler, c) ==
    IF c.v.t = "num"
    THEN Cell("float64", Num((2 * (c.v.n - scaler.mean)) \div scaler.scale))
    ELSE Cell("float64", NaN)

AplicarEscalonamento(df, scalers) ==
    [col \in DOMAIN df |->
        IF col \in DOMAIN scalers /\ df[col].dtype \in {"float64", "Int64"}
        THEN transform_scale(scalers[col], df[col]) ELSE df[col]]

----------------------------------------------------------------------------
(* The model: an opaque fitted classifier.  It is a deterministic function  *)
(* of the feature vector; it rejects what it cannot read as a number, and  *)
(* rejects a missing value unless the estimator supports them.             *)

\* A frame left in the order of the request's keys, never reindexed.
FeatureVectorSemOrdem(df, colunas) ==
    [i \in 1..Len(colunas) |->
        LET col == IF Len(colunas) = 2 /\ {colunas[1], colunas[2]} = {"age", "diabetes"}
                   THEN <<"age", "diabetes">>[i] ELSE colunas[i]
        IN  [col |-> col, dtype |-> df[col].dtype, v |-> df[col].v]]

FeatureVector(df, colunas) ==
    [i \in 1..Len(colunas) |->
        [col |-> colunas[i], dtype |-> df[colunas[i]].dtype, v |-> df[colunas[i]].v]]

AsFloat(v) ==
    CASE v.t = "num"  -> v.n
      [] v.t = "bool" -> 2 * v.n
      [] v.t = "str" /\ v.s \in DOMAIN ParsedNumber -> ParsedNumber[v.s]
      [] OTHER -> 0

ModelRaises(m, X) ==
    \E i \in 1..Len(X) :
        \/ X[i].v.t = "str" /\ X[i].v.s \notin DOMAIN ParsedNumber
        \/ IsMissing(X[i].v) /\ ~m.nan_ok

RECURSIVE Weighted(_, _)
Weighted(X, i) == IF i = 0 THEN 0 ELSE i * AsFloat(X[i].v) + Weighted(X, i - 1)

\* Positive-class probabilities the classifier returns, in hundredths of a
\* percent (5000 is predict_proba 0.5).
ProbTable == <<0, 25, 145, 147, 2000, 4999, 5000, 5001, 7575, 10000>>

predict_proba(m, X) ==
    ProbTable[((m.seed + Weighted(X, Len(X))) % Len(ProbTable)) + 1]


----------------------------------------------------------------------------
(* calibrate_probability.  Its argument is in hundredths of a percent, its *)
(* result in ten-thousandths of a percent.                                 *)

Unit == 10000        \* one percent, in ten-thousandths of a percent

Max(a, b) == IF a >= b THEN a ELSE b
Min(a, b) == IF a <= b THEN a ELSE b

\* Python's round(a / d) for d > 0: to the nearest integer, a tie to the
\* even one.
round(a, d) ==
    LET q == a \div d
        r == a % d
    IN  IF 2 * r < d THEN q
        ELSE IF 2 * r > d THEN q + 1
        ELSE IF q % 2 = 0 THEN q ELSE q + 1

\* calibrated = (probability - 50) * (17 / 50) + 17
Affine(p) == ((p * 100 - 50 * Unit) * 17) \div 50 + 17 * Unit

\* A calibration that forgets to round.
calibrate_probability_sem_round(p) == Max(0, Affine(p))

\* src/src/app.py: max(0, round(calibrated * 100) / 100)
calibrate_probability_app(p) == Max(0, round(Affine(p), 100) * 100)

\* src/tests/test_app.py: max(0, min(100, round(calibrated * 100) / 100))
calibrate_probability_test_app(p) ==
    Max(0, Min(100 * Unit, round(Affine(p), 100) * 100))

calibrate_probability(v, p) ==
    IF v = "app" THEN calibrate_probability_app(p)
    ELSE calibrate_probability_test_app(p)

\* limiar_risco_alto, in ten-thousandths of a percent: 0.5 and 17.0
limiar_risco_alto_app == 5000
limiar_risco_alto_test_app == 170000

limiar_risco_alto(v) ==
    IF v = "app" THEN limiar_risco_alto_app ELSE limiar_risco_alto_test_app

----------------------------------------------------------------------------
(* prever: the state of one request and the steps of its handling. *)

NoResp == [outcome |-> "", status |-> 0, missing |-> <<>>, details |-> EmptyMap,
           risco_obito |-> -1, probabilidade |-> -1, nivel_risco |-> ""]

Idle == [pc |-> "idle", data |-> EmptyMap, df |-> EmptyMap, X |-> <<>>,
         n_validar |-> 0, n_predict |-> 0, n_proba |-> 0, resp |-> NoResp]

NewReq(d) == [Idle EXCEPT !.pc = "recv", !.data = d]

Finish(r, resp) == [r EXCEPT !.pc = "done", !.resp = resp]

\* jsonify({"error": "Erro ao processar a requisicao: ..."}), 500
ProcessingError == [NoResp EXCEPT !.outcome = "processing_error", !.status = 500]

\* if not data: "Nenhum dado fornecido.", 400
Receber(r) ==
    IF r.data = EmptyMap
    THEN Finish(r, [NoResp EXCEPT !.outcome = "no_data", !.status = 400])
    ELSE [r EXCEPT !.pc = "presence"]

\* A presence check that reports every required column once one is missing.
missing_cols_todas(data, colunas) ==
    IF \E i \in 1..Len(colunas) : colunas[i] \notin DOMAIN data
    THEN colunas ELSE <<>>

\* missing_cols = [col for col in colunas_esperadas if col not in data]
missing_cols(data, colunas) ==
    SelectSeq(colunas, LAMBDA col : col \notin DOMAIN data)

VerificarColunas(r, colunas) ==
    IF missing_cols(r.data, colunas) # <<>>
    THEN Finish(r, [NoResp EXCEPT !.outcome = "missing_columns", !.status = 400,
                                  !.missing = missing_cols(r.data, colunas)])
    ELSE [r EXCEPT !.pc = "validate"]

Validar(r, vcol) ==
    LET erros_validacao == validar_valores(r.data, vcol)
        r1 == [r EXCEPT !.n_validar = @ + 1]
    IN  IF erros_validacao # EmptyMap
        THEN Finish(r1, [NoResp EXCEPT !.outcome = "validation_failed",
                                       !.status = 400,
                                       !.details = erros_validacao])
        ELSE [r1 EXCEPT !.pc = "frame"]

CriarDataFrame(r, colunas) ==
    [r EXCEPT !.pc = "convert", !.df = DataFrame(r.data, colunas)]

\* One transformation of the frame; an exception ends the request with 500.
Transformar(r, df, next) ==
    IF HasRaised(df) THEN Finish([r EXCEPT !.df = EmptyMap], ProcessingError)
    ELSE [r EXCEPT !.pc = next, !.df = df]

Converter(r, dtypes) ==
    Transformar(r, converter_para_tipo_correto(r.df, dtypes), "encode")

Codificar(r, encoders) ==
    Transformar(r, AplicarLabelEncoding(r.df, encoders), "scale")

Escalonar(r, scalers) ==
    Transformar(r, AplicarEscalonamento(r.df, scalers), "predict")

\* nivel_risco: only the later copy of the handler returns it.
nivel_risco(v, risco_obito) ==
    IF v = "app" THEN "" ELSE IF risco_obito = 1 THEN "ALTO" ELSE "BAIXO"

Resultado(v, prob) ==
    LET prob_calibrated == calibrate_probability(v, prob)
        risco_obito == IF prob_calibrated >= limiar_risco_alto(v) THEN 1 ELSE 0
    IN  [NoResp EXCEPT !.outcome = "success", !.status = 200,
                       !.risco_obito = risco_obito,
                       !.probabilidade = prob_calibrated,
                       !.nivel_risco = nivel_risco(v, risco_obito)]

\* pred = modelo.predict(df)[0]; prob = modelo.predict_proba(df)[0][1] * 100
Predizer(r, v, m, colunas) ==
    LET X  == FeatureVector(r.df, colunas)
        r1 == [r EXCEPT !.X = X, !.n_predict = @ + 1]
    IN  IF ModelRaises(m, X) THEN Finish(r1, ProcessingError)
        ELSE Finish([r1 EXCEPT !.n_proba = @ + 1],
                    Resultado(v, predict_proba(m, X)))

\* The next step of a request under the loaded bundle.
Step(r) ==
    CASE r.pc = "recv"     -> Receber(r)
      [] r.pc = "presence" -> VerificarColunas(r, colunas_esperadas)
      [] r.pc = "validate" -> Validar(r, value_col)
      [] r.pc = "frame"    -> CriarDataFrame(r, colunas_esperadas)
      [] r.pc = "convert"  -> Converter(r, dtypes_esperados)
      [] r.pc = "encode"   -> Codificar(r, label_encoders_armazenados)
      [] r.pc = "scale"    -> Escalonar(r, scalers_armazenados)
      [] r.pc = "predict"  -> Predizer(r, version, modelo, colunas_esperadas)
      [] OTHER -> r

\* A request handled from start to end with nothing in between.
RECURSIVE Run(_)
Run(r) == IF r.pc \in {"idle", "done"} THEN r ELSE Run(Step(r))


----------------------------------------------------------------------------
(* The bundles and the requests of the model. *)

Versions == {"app", "test_app"}
Workers == 1..NumWorkers

Modelos == {[seed |-> 0, nan_ok |-> FALSE], [seed |-> 3, nan_ok |-> TRUE]}

Absent == "absent"
NoConstraint == [k |-> Absent, dtype |-> "None", allowed |-> <<>>]
NoEncoder == [classes |-> <<>>]
NoScaler == Scaler(0, 0)

Config(d, c, e, sc) == [dtype |-> d, constraint |-> c, encoder |-> e, scaler |-> sc]

Constraints ==
    {NoConstraint, AllowedList(<<Num(2), Str("yes")>>), DtypeDict("float64"),
     DtypeDict("int64"), DtypeDict("bool"), DtypeDict("None")}

\* What the bundle may say of "age": every combination.
AgeConfigs ==
    {Config(d, c, e, sc) :
        d \in {Absent, "float64", "int64", "bool", "object"},
        c \in Constraints,
        e \in {NoEncoder, SimNao},
        sc \in {NoScaler, Scaler(1, 2)}}

\* What it may say of "diabetes".
DiabetesConfigs ==
    {Config(Absent, NoConstraint, NoEncoder, NoScaler),
     Config("object", AllowedList(<<Str("yes"), Str("abc")>>), SimNao, NoScaler),
     Config("float64", DtypeDict("float64"), NoEncoder, Scaler(2, 1))}

Orders == {<<"age", "diabetes">>, <<"diabetes", "age">>}

\* A bundle map: the fields the configuration gives an entry, with the entry.
BundleMap(cfg, field, none) ==
    [f \in {g \in DOMAIN cfg : cfg[g][field] # none} |-> cfg[f][field]]

Fields(a, d) == [f \in {"age", "diabetes"} |-> IF f = "age" THEN a ELSE d]

Loaded(v, m, colunas, cfg) ==
    /\ version = v
    /\ modelo = m
    /\ colunas_esperadas = colunas
    /\ dtypes_esperados = BundleMap(cfg, "dtype", Absent)
    /\ value_col = BundleMap(cfg, "constraint", NoConstraint)
    /\ label_encoders_armazenados = BundleMap(cfg, "encoder", NoEncoder)
    /\ scalers_armazenados = BundleMap(cfg, "scaler", NoScaler)

\* Requests: a value or nothing for each expected field, and maybe a key
\* the bundle does not know.
WithExtra(d) ==
    [k \in DOMAIN d \cup {"extra"} |-> IF k = "extra" THEN Str("abc") ELSE d[k]]

Records == UNION {[K -> JsonValues] : K \in SUBSET {"age", "diabetes"}}
Requests == Records \cup {WithExtra(d) : d \in Records}

----------------------------------------------------------------------------
(* Spec: one request after another, each handled from start to end. *)

Init ==
    /\ \E v \in Versions, m \in Modelos, colunas \in Orders,
          a \in AgeConfigs, d \in DiabetesConfigs :
            Loaded(v, m, colunas, Fields(a, d))
    /\ reqs = [w \in Workers |-> Idle]
    /\ probability = 0
    /\ calibrated = -1

\* A request arrives at an idle worker and is handled to its response.
prever(d) ==
    /\ reqs[1].pc = "idle"
    /\ reqs' = [reqs EXCEPT ![1] = Run(NewReq(d))]
    /\ UNCHANGED <<version, bundle, probability, calibrated>>

\* The response is returned; the request's data are dropped.
Retornar(w) ==
    /\ reqs[w].pc = "done"
    /\ reqs' = [reqs EXCEPT ![w] = Idle]
    /\ UNCHANGED <<version, bundle, probability, calibrated>>

Next ==
    \/ \E d \in Requests : prever(d)
    \/ Retornar(1)

Spec == Init /\ [][Next]_vars


----------------------------------------------------------------------------
(* SpecConc: several requests in flight, their steps interleaved.  Every   *)
(* step reads the bundle; none of them assigns to it.  The LabelEncoder's  *)
(* transform is the one call made on a bundle object that a fitting method *)
(* would change, so its effect on the encoders is spelled out.             *)

\* fit_transform() in place of transform(): the encoder is refitted on the
\* labels of the request.
EncodersAposFit(encoders, df) ==
    [col \in DOMAIN encoders |->
        IF col \in DOMAIN df /\ df[col].dtype = "object" /\ df[col].v.t = "str"
        THEN [classes |-> <<df[col].v.s>>] ELSE encoders[col]]

\* encoder.transform() leaves classes_ as fitted.
EncodersAposTransform(encoders, df) == encoders

ConcConfig ==
    Fields(Config("float64", DtypeDict("float64"), NoEncoder, Scaler(1, 2)),
           Config("object", NoConstraint, SimNao, NoScaler))

ConcRequests ==
    {EmptyMap,
     [k \in {"age"} |-> Num(3)],
     Fields(Str("abc"), Str("yes")),
     Fields(Num(3), Str("yes")),
     Fields(Str("1"), Str("abc")),
     WithExtra(Fields(Num(0), Str("no")))}

InitConc ==
    /\ \E v \in Versions, m \in Modelos :
            Loaded(v, m, <<"age", "diabetes">>, ConcConfig)
    /\ reqs = [w \in Workers |-> Idle]
    /\ probability = 0
    /\ calibrated = -1

Chegar(w, d) ==
    /\ reqs[w].pc = "idle"
    /\ reqs' = [reqs EXCEPT ![w] = NewReq(d)]
    /\ UNCHANGED <<version, bundle, probability, calibrated>>

Passo(w, pc) ==
    /\ reqs[w].pc = pc
    /\ reqs' = [reqs EXCEPT ![w] = Step(reqs[w])]
    /\ UNCHANGED <<version, modelo, colunas_esperadas, dtypes_esperados,
                   value_col, scalers_armazenados, probability, calibrated>>

PassoReceber(w)   == Passo(w, "recv") /\ UNCHANGED label_encoders_armazenados
PassoColunas(w)   == Passo(w, "presence") /\ UNCHANGED label_encoders_armazenados
PassoValidar(w)   == Passo(w, "validate") /\ UNCHANGED label_encoders_armazenados
PassoDataFrame(w) == Passo(w, "frame") /\ UNCHANGED label_encoders_armazenados
PassoConverter(w) == Passo(w, "convert") /\ UNCHANGED label_encoders_armazenados
PassoCodificar(w) ==
    /\ Passo(w, "encode")
    /\ label_encoders_armazenados' =
          EncodersAposTransform(label_encoders_armazenados, reqs[w].df)
PassoEscalonar(w) == Passo(w, "scale") /\ UNCHANGED label_encoders_armazenados
PassoPredizer(w)  == Passo(w, "predict") /\ UNCHANGED label_encoders_armazenados

NextConc ==
    \E w \in Workers :
        \/ \E d \in ConcRequests : Chegar(w, d)
        \/ PassoReceber(w)
        \/ PassoColunas(w)
        \/ PassoValidar(w)
        \/ PassoDataFrame(w)
        \/ PassoConverter(w)
        \/ PassoCodificar(w)
        \/ PassoEscalonar(w)
        \/ PassoPredizer(w)
        \/ Retornar(w)

SpecConc == InitConc /\ [][NextConc]_vars

----------------------------------------------------------------------------
(* SpecCal: calibrate_probability called on its own, on any percentage.    *)

InitCal ==
    /\ \E v \in Versions :
            Loaded(v, [seed |-> 0, nan_ok |-> FALSE], <<"age", "diabetes">>,
                   ConcConfig)
    /\ reqs = [w \in Workers |-> Idle]
    /\ probability \in (-MinRaw)..MaxRaw
    /\ calibrated = -1

Calibrar ==
    /\ calibrated = -1
    /\ calibrated' = calibrate_probability(version, probability)
    /\ UNCHANGED <<version, bundle, reqs, probability>>

NextCal == Calibrar

SpecCal == InitCal /\ [][NextCal]_vars


----------------------------------------------------------------------------
(* The claims.  R is the request the sequential handler has answered.      *)

R == reqs[1]
Answered == R.pc = "done"
Expected == {colunas_esperadas[i] : i \in 1..Len(colunas_esperadas)}
Lacking(data) == Expected \ DOMAIN data
SeqSet(q) == {q[i] : i \in 1..Len(q)}
NoInference(r) == r.n_predict = 0 /\ r.n_proba = 0 /\ r.X = <<>>

\* C1 as stated: every answered record that lacks an expected feature, the
\* empty record included, gets the missing-columns error listing exactly the
\* absent expected features, with no validation and no inference.
C1_Original ==
    (Answered /\ Lacking(R.data) # {}) =>
        /\ R.resp.outcome = "missing_columns"
        /\ SeqSet(R.resp.missing) = Lacking(R.data)
        /\ R.n_validar = 0
        /\ NoInference(R)

\* C1 amended: every answered NON-EMPTY record that lacks an expected
\* feature gets the missing-columns error (status 400) listing exactly the
\* absent expected features; the empty record gets the no-data error; in both
\* cases neither validation nor inference is performed.
C1_MissingColumns ==
    (Answered /\ Lacking(R.data) # {}) =>
        /\ R.n_validar = 0
        /\ NoInference(R)
        /\ R.resp.status = 400
        /\ IF R.data = EmptyMap
           THEN R.resp.outcome = "no_data" /\ R.resp.missing = <<>>
           ELSE /\ R.resp.outcome = "missing_columns"
                /\ SeqSet(R.resp.missing) = Lacking(R.data)
                /\ Len(R.resp.missing) = Cardinality(Lacking(R.data))

\* C1 witness: a record with an unknown key and one of the two expected
\* features is answered with that one missing column.
C1_Witness ==
    /\ Answered
    /\ DOMAIN R.data = {"age", "extra"}
    /\ R.resp.outcome = "missing_columns"
    /\ R.resp.missing = <<"diabetes">>

\* Whether a value breaks its value_col entry, as section 4.2 words it.
Violates(v, c) ==
    \/ /\ c.k = "dict" /\ c.dtype \in {"float64", "int64"}
       /\ v.t \notin {"num", "bool"}
       /\ ~(v.t = "str" /\ v.s \in {"1", "1.5"})
    \/ /\ c.k = "list"
       /\ \A i \in 1..Len(c.allowed) : ~PyEq(v, c.allowed[i])
    \/ /\ c.k = "dict" /\ c.dtype = "bool"
       /\ v.t # "bool"
       /\ ~(v.t = "str" /\ v.s = "True")

\* C2: for an answered record with every expected feature, the detail map
\* has an entry for exactly the fields present in the record and in value_col
\* whose value violates its constraint; a non-empty map means
\* validation_failed (400) and no inference.
C2_ValidationDetails ==
    (Answered /\ R.data # EmptyMap /\ Lacking(R.data) = {}) =>
        LET V == {f \in DOMAIN R.data \cap DOMAIN value_col :
                      Violates(R.data[f], value_col[f])}
        IN  /\ R.n_validar = 1
            /\ DOMAIN R.resp.details = V
            /\ \A f \in V : R.resp.details[f].received = R.data[f]
            /\ (V # {}) => /\ R.resp.outcome = "validation_failed"
                           /\ R.resp.status = 400
                           /\ NoInference(R)
            /\ (V = {}) => R.resp.outcome # "validation_failed"

\* C2 witness: two fields violate at once and both are reported.
C2_Witness ==
    /\ Answered
    /\ R.resp.outcome = "validation_failed"
    /\ DOMAIN R.resp.details = {"age", "diabetes"}

\* C3 as stated: a success response has flag 1 iff the calibrated
\* probability is at least 17.0.
C3_Threshold17 ==
    (Answered /\ R.resp.outcome = "success") =>
        (R.resp.risco_obito = 1 <=> R.resp.probabilidade >= 17 * Unit)

\* C4: the calibrated probability of a success response lies in [0, 100]
\* and is a multiple of 0.01.
C4_CalibratedRange ==
    (Answered /\ R.resp.outcome = "success") =>
        /\ 0 <= R.resp.probabilidade
        /\ R.resp.probabilidade <= 100 * Unit
        /\ R.resp.probabilidade % (Unit \div 100) = 0

\* C4 witness: a success whose raw probability 0.25% calibrates to the tie
\* 0.085, rounded to 0.08.
C4_Witness ==
    /\ Answered
    /\ R.resp.outcome = "success"
    /\ R.resp.probabilidade = 8 * (Unit \div 100)

\* C8 as stated: a success response holds a binary flag, a calibrated
\* probability and a label that is ALTO iff the flag is 1 and BAIXO iff it
\* is 0.
C8_RiskLabel ==
    (Answered /\ R.resp.outcome = "success") =>
        /\ R.resp.risco_obito \in {0, 1}
        /\ R.resp.probabilidade >= 0
        /\ R.resp.nivel_risco \in {"ALTO", "BAIXO"}
        /\ (R.resp.nivel_risco = "ALTO" <=> R.resp.risco_obito = 1)
        /\ (R.resp.nivel_risco = "BAIXO" <=> R.resp.risco_obito = 0)

\* C10 as stated: when the model is invoked, no feature declared float64 or
\* int64 holds a missing-value marker.
C10_NoMissingAtInference ==
    (Answered /\ R.n_predict > 0) =>
        \A i \in 1..Len(R.X) :
            (/\ R.X[i].col \in DOMAIN dtypes_esperados
             /\ dtypes_esperados[R.X[i].col] \in {"float64", "int64"})
                => R.X[i].v.t \notin {"nan", "NA", "None"}


\* C5 as stated, for a direct call: the result is
\* max(0, min(100, round((p - 50) * 17 / 50 + 17, 2))), so raw 50.0 gives
\* 17.00, raw 0.0 gives 0.00 and no result exceeds 100.
C5_CalibrationFormula ==
    (calibrated # -1) =>
        LET x == ((probability * 100 - 50 * Unit) * 17) \div 50 + 17 * Unit
            c == Unit \div 100
            h == CHOOSE k \in ((x \div c) - 1)..((x \div c) + 1) :
                    LET dist == IF x >= k * c THEN x - k * c ELSE k * c - x
                    IN  2 * dist < c \/ (2 * dist = c /\ k % 2 = 0)
            clamped == IF h * c > 100 * Unit THEN 100 * Unit
                       ELSE IF h * c < 0 THEN 0 ELSE h * c
        IN  /\ calibrated = clamped
            /\ calibrated <= 100 * Unit
            /\ (probability = 5000) => calibrated = 17 * Unit
            /\ (probability = 0) => calibrated = 0

\* What a response says of the risk.
Prediction(resp) ==
    <<resp.outcome, resp.risco_obito, resp.probabilidade, resp.nivel_risco>>

\* C6: no step of any interleaving changes the bundle; every answered
\* request has the prediction it has when handled alone; two answered
\* requests with the same record have the same prediction.
C6_Isolation ==
    /\ [][bundle' = bundle]_vars
    /\ [](\A w \in Workers :
            reqs[w].pc = "done" =>
                Prediction(reqs[w].resp)
                    = Prediction(Run(NewReq(reqs[w].data)).resp))
    /\ [](\A w1, w2 \in Workers :
            (/\ reqs[w1].pc = "done" /\ reqs[w2].pc = "done"
             /\ reqs[w1].data = reqs[w2].data)
                => Prediction(reqs[w1].resp) = Prediction(reqs[w2].resp))

\* C6 witness: two workers have answered the same valid record, both with
\* a prediction.
C6_Witness ==
    /\ reqs[1].pc = "done" /\ reqs[2].pc = "done"
    /\ reqs[1].data = reqs[2].data
    /\ reqs[1].resp.outcome = "success"
    /\ reqs[2].resp.outcome = "success"

NoEncoderNoScaler ==
    DOMAIN label_encoders_armazenados = {} /\ DOMAIN scalers_armazenados = {}

InOrder(X) ==
    /\ Len(X) = Len(colunas_esperadas)
    /\ \A i \in 1..Len(X) : X[i].col = colunas_esperadas[i]

Declared(col) ==
    IF col \in DOMAIN dtypes_esperados THEN dtypes_esperados[col] ELSE Absent

\* C7 as stated: with no encoder and no scaler in the bundle, the vector
\* handed to the model holds the expected features in their order, each with
\* the value the request gave.
C7_Original ==
    (Answered /\ R.n_predict > 0 /\ NoEncoderNoScaler) =>
        /\ InOrder(R.X)
        /\ \A i \in 1..Len(R.X) : R.X[i].v = R.data[R.X[i].col]

\* C7 amended: with no encoder and no scaler in the bundle, the vector holds
\* exactly the expected features in their order, and a field keeps the
\* request's value when it has no float64/int64/bool dtype declared or when
\* the value already is a JSON number (float64/int64) or a JSON boolean
\* (bool); any other value of a float64/int64 field is replaced by a number,
\* a boolean or a missing-value marker, and any other value of a bool field
\* by whether its lower-cased string form is "true".
C7_Reindexed ==
    (Answered /\ R.n_predict > 0 /\ NoEncoderNoScaler) =>
        /\ InOrder(R.X)
        /\ \A i \in 1..Len(R.X) :
            LET v == R.data[R.X[i].col]
                d == Declared(R.X[i].col)
            IN  CASE d \in {"float64", "int64"} ->
                        IF v.t = "num" THEN R.X[i].v = v
                        ELSE R.X[i].v.t \in {"num", "bool", "nan", "NA"}
                  [] d = "bool" ->
                        IF v.t = "bool" THEN R.X[i].v = v
                        ELSE R.X[i].v = Bool(v = Str("True"))
                  [] OTHER -> R.X[i].v = v

\* C7 witness: the bundle orders diabetes before age, the request carries an
\* unknown key and the string "1" for the float64 field age; the model is
\* handed <<diabetes, age>> with age 1.
C7_Witness ==
    /\ Answered /\ R.n_predict > 0 /\ NoEncoderNoScaler
    /\ colunas_esperadas = <<"diabetes", "age">>
    /\ "extra" \in DOMAIN R.data
    /\ Declared("age") = "float64"
    /\ R.data["age"] = Str("1")
    /\ R.X[2].v = Num(2)

PassedValidation(r) == r.n_validar = 1 /\ r.resp.outcome # "validation_failed"

\* A string the stored encoder of its field never saw, still text when the
\* encoders are applied.
UnknownCategory(r) ==
    \E f \in DOMAIN label_encoders_armazenados :
        /\ Declared(f) \in {Absent, "object"}
        /\ r.data[f].t = "str"
        /\ \A i \in 1..Len(label_encoders_armazenados[f].classes) :
                label_encoders_armazenados[f].classes[i] # r.data[f].s

\* A fraction under a declared int64 cannot be cast.
FractionForInt(r) ==
    \E f \in DOMAIN dtypes_esperados :
        /\ dtypes_esperados[f] = "int64"
        /\ r.data[f] \in {Num(n) : n \in {m \in 0..MaxNum : m % 2 = 1}}
                         \cup {Str("1.5")}

AfterValidation(r) ==
    /\ r.n_predict <= 1 /\ r.n_proba <= 1
    /\ PassedValidation(r) => r.resp.outcome \in {"success", "processing_error"}
    /\ (PassedValidation(r) /\ (UnknownCategory(r) \/ FractionForInt(r)))
            => r.resp.outcome = "processing_error"
    /\ (r.resp.outcome = "processing_error") =>
            /\ PassedValidation(r)
            /\ r.resp.status = 500
            /\ r.n_proba = 0
            /\ r.resp.risco_obito = -1
            /\ r.resp.probabilidade = -1
            /\ r.resp.nivel_risco = ""
    /\ (r.resp.outcome = "success") =>
            r.n_predict = 1 /\ r.n_proba = 1 /\ r.resp.status = 200

\* C9 as stated: after validation any failure ends in processing_error
\* (500) without prediction fields, the model is tried at most once, and
\* every request ends in success, missing_columns, validation_failed or
\* processing_error.
C9_Original ==
    Answered =>
        /\ AfterValidation(R)
        /\ R.resp.outcome \in {"success", "missing_columns", "validation_failed",
                               "processing_error"}

\* C9 amended: as stated, for every request with a NON-EMPTY record; the
\* empty record ends in a fifth outcome, the no-data error (400).
C9_Outcomes ==
    Answered =>
        /\ AfterValidation(R)
        /\ IF R.data = EmptyMap
           THEN R.resp.outcome = "no_data" /\ R.resp.status = 400
           ELSE R.resp.outcome \in {"success", "missing_columns",
                                     "validation_failed", "processing_error"}

\* C9 witness: a validated request whose category the encoder never saw
\* ends in processing_error before the model is tried.
C9_Witness ==
    /\ Answered
    /\ PassedValidation(R)
    /\ UnknownCategory(R)
    /\ R.resp.outcome = "processing_error"
    /\ R.n_predict = 0


====
